---- MODULE Spec2Model ----
(***************************************************************************)
(* ccheck: policy-evaluation orchestration (pkg.ConfChecker, pkg.Compiler, *)
(* parsers.Get and the command-line front end).                            *)
(*                                                                         *)
(* Strings the code inspects byte by byte (file contents, rule names,      *)
(* file names) are sequences of one-character strings.  Go error values    *)
(* are sequences of message texts: <<>> is the nil error, <<m>> a plain    *)
(* error, and a longer sequence a multierr value holding several errors.   *)
(***************************************************************************)
EXTENDS Integers, Sequences, FiniteSets, TLC

VARIABLES
    pc,         \* position of the process: start, built, process, report, exit, panic
    policyDir,  \* args.policyDir (-p)
    configs,    \* args.configs (positional arguments)
    strict,     \* args.strict (-s)
    cancelled,  \* whether the context handed to Run is done
    modules,    \* compiler.Modules: module file name -> its rules
    cfs,        \* loadConfigs' result: absolute path -> parts
    todo,       \* keys of cfs that Run's loop has not visited yet
    res,        \* Run's CheckResults under construction
    runErr,     \* the error Run returned (Nil when none)
    evalLog,    \* every runQuery call made, in order
    classLog,   \* absolute path -> the fQueries / wQueries processFile built
    out,        \* lines the printer has written
    exitStatus  \* exit status of the process (-1 while running)

vars == <<pc, policyDir, configs, strict, cancelled, modules, cfs, todo, res,
          runErr, evalLog, classLog, out, exitStatus>>

----------------------------------------------------------------------------
(* Bounds *)

MaxConfigs == 2

----------------------------------------------------------------------------
(* Generic helpers *)

Nil == <<>>

Range(s) == {s[i] : i \in 1..Len(s)}

Letters == {"a", "b", "c", "d", "e", "g", "h", "i", "j", "l", "m", "n", "o",
            "p", "r", "s", "t", "w", "x", "y"}

\* strings.HasPrefix / strings.HasSuffix
HasPrefix(s, p) == Len(s) >= Len(p) /\ SubSeq(s, 1, Len(p)) = p
HasSuffix(s, p) == Len(s) >= Len(p) /\ SubSeq(s, Len(s) - Len(p) + 1, Len(s)) = p

\* errors.Error() of a multierr value: the texts joined by "; "
RECURSIVE ErrorText(_)
ErrorText(e) ==
    IF e = Nil THEN "%!s(<nil>)"
    ELSE IF Len(e) = 1 THEN e[1]
    ELSE e[1] \o "; " \o ErrorText(Tail(e))

\* multierr.Append(left, right)
MultierrAppend(left, right) == left \o right

\* all permutations of a finite set, as sequences
Perms(S) ==
    {p \in [1..Cardinality(S) -> S] : \A i, j \in 1..Cardinality(S) : p[i] = p[j] => i = j}

----------------------------------------------------------------------------
(* Names *)

Deny   == <<"d", "e", "n", "y">>
Warn   == <<"w", "a", "r", "n">>
DotRego == <<".", "r", "e", "g", "o">>
Namespace == <<"m", "a", "i", "n">>

\* rule head names used by the policy files below
IsA     == <<"i", "s", "_", "a">>
DenyA   == Deny \o <<"_", "a">>
NoDeny  == <<"n", "o">> \o Deny
WarnB   == Warn \o <<"_", "b">>
WarnN   == Warn \o <<"_", "n">>

\* file names
ARego   == <<"a">> \o DotRego
BRego   == <<"b">> \o DotRego
CRego   == <<"c">> \o DotRego
XRego   == <<"x">> \o DotRego
NTxt    == <<"n", ".", "t", "x", "t">>
OneRego == <<"o", "n", "e">> \o DotRego
CmpRego == <<"c", "m", "p">> \o DotRego
PTxt    == <<"p", ".", "t", "x", "t">>
PolDir  == <<"p", "o", "l">>
NumDir  == <<"n", "u", "m">>
BadDir  == <<"b", "a", "d">>
Nope    == <<"n", "o", "p", "e">>
Dot     == <<".">>

----------------------------------------------------------------------------
(* The policy sources on disk.  A policy file is its rules (head name and  *)
(* a body) plus whether the external parser and compiler accept it.        *)
(* Bodies: "helper" is a complete rule (its value is not a list); the      *)
(* others are partial-set rules: "no_a" yields one message when the input  *)
(* holds no "a", "has_b" one message when it holds a "b", "two" always two *)
(* messages, "num" the number 1 when the input holds a "b", "none" never   *)
(* anything.                                                               *)

Rule(n, b) == [name |-> n, body |-> b]

PolicyPaths == {PolDir, NumDir, BadDir, OneRego, CmpRego, PTxt, Nope}

\* os.Stat(pPath)
Stat(pPath) ==
    IF pPath \in {PolDir, NumDir, BadDir} THEN [exists |-> TRUE, isDir |-> TRUE, name |-> pPath]
    ELSE IF pPath \in {OneRego, CmpRego, PTxt} THEN [exists |-> TRUE, isDir |-> FALSE, name |-> pPath]
    ELSE [exists |-> FALSE, isDir |-> FALSE, name |-> pPath]

\* ioutil.ReadDir(pPath): the entries' names, sorted by file name
ReadDir(pPath) ==
    IF pPath = PolDir THEN <<ARego, BRego, NTxt>>
    ELSE IF pPath = NumDir THEN <<CRego>>
    ELSE IF pPath = BadDir THEN <<ARego, XRego>>
    ELSE <<>>

\* filepath.Dir(pPath) of a path without a directory component
FilepathDir(pPath) == Dot

\* ioutil.ReadFile(dirPath + "/" + name) followed by what the external
\* ast.ParseModule / ast.Compiler make of the text
PolicySource(path) ==
    IF path = PolDir \o <<"/">> \o ARego
        THEN [syntaxOk |-> TRUE, compileOk |-> TRUE,
              rules |-> <<Rule(IsA, "helper"), Rule(DenyA, "no_a"), Rule(WarnB, "has_b")>>]
    ELSE IF path = PolDir \o <<"/">> \o BRego
        THEN [syntaxOk |-> TRUE, compileOk |-> TRUE,
              rules |-> <<Rule(Deny, "two"), Rule(NoDeny, "helper")>>]
    ELSE IF path = NumDir \o <<"/">> \o CRego
        THEN [syntaxOk |-> TRUE, compileOk |-> TRUE,
              rules |-> <<Rule(DenyA, "no_a"), Rule(WarnN, "num")>>]
    ELSE IF path = BadDir \o <<"/">> \o ARego
        THEN [syntaxOk |-> TRUE, compileOk |-> TRUE, rules |-> <<Rule(Deny, "none")>>]
    ELSE IF path = BadDir \o <<"/">> \o XRego
        THEN [syntaxOk |-> FALSE, compileOk |-> TRUE, rules |-> <<>>]
    ELSE IF path = Dot \o <<"/">> \o OneRego
        THEN [syntaxOk |-> TRUE, compileOk |-> TRUE,
              rules |-> <<Rule(DenyA, "no_a"), Rule(Warn, "none")>>]
    ELSE IF path = Dot \o <<"/">> \o CmpRego
        THEN [syntaxOk |-> TRUE, compileOk |-> FALSE, rules |-> <<Rule(Deny, "two")>>]
    ELSE IF path = Dot \o <<"/">> \o PTxt
        THEN [syntaxOk |-> TRUE, compileOk |-> TRUE, rules |-> <<Rule(Deny, "two")>>]
    ELSE [syntaxOk |-> FALSE, compileOk |-> FALSE, rules |-> <<>>]

----------------------------------------------------------------------------
(* Compiler.readPolicies and Compiler.Build *)

\* the loop of readPolicies over files[i..]; ms is the map built so far
RECURSIVE ReadPoliciesLoop(_, _, _, _)
ReadPoliciesLoop(files, dirPath, i, ms) ==
    IF i > Len(files) THEN [err |-> Nil, ms |-> ms]
    ELSE IF ~HasSuffix(files[i], DotRego)
        THEN ReadPoliciesLoop(files, dirPath, i + 1, ms)
    ELSE LET src == PolicySource(dirPath \o <<"/">> \o files[i]) IN
        IF ~src.syntaxOk THEN [err |-> <<"rego_parse_error">>, ms |-> <<>>]
        ELSE ReadPoliciesLoop(files, dirPath, i + 1,
                              [n \in DOMAIN ms \cup {files[i]} |->
                                  IF n = files[i] THEN src ELSE ms[n]])

readPolicies(pPath) ==
    LET info == Stat(pPath) IN
    IF ~info.exists THEN [err |-> <<"error loading policies">>, ms |-> <<>>]
    ELSE LET files   == IF info.isDir THEN ReadDir(pPath) ELSE <<info.name>>
             dirPath == IF info.isDir THEN pPath ELSE FilepathDir(pPath)
         IN ReadPoliciesLoop(files, dirPath, 1, <<>>)

\* Compiler.Build: the error it returns and the compiled modules
Build(pPath) ==
    LET r == readPolicies(pPath) IN
    IF r.err # Nil THEN [err |-> r.err, modules |-> <<>>]
    ELSE IF \E n \in DOMAIN r.ms : ~r.ms[n].compileOk
        THEN [err |-> <<"rego_compile_error">>, modules |-> <<>>]
    ELSE [err |-> Nil, modules |-> [n \in DOMAIN r.ms |-> r.ms[n].rules]]

----------------------------------------------------------------------------
(* failQ, warnQ and regexp.MatchString *)

IsAlpha(c) == c \in Letters

\* the pattern tail `_?[a-zA-Z]*` matches the whole of s
MatchTail(s) ==
    \/ \A i \in 1..Len(s) : IsAlpha(s[i])
    \/ s # <<>> /\ s[1] = "_" /\ \A i \in 2..Len(s) : IsAlpha(s[i])

\* regexp.MustCompile(lit + "_?[a-zA-Z]*").MatchString(n): some substring of
\* n matches the pattern
MatchString(lit, n) ==
    \E i \in 1..Len(n) : \E j \in i..Len(n) :
        /\ j >= i + Len(lit) - 1
        /\ SubSeq(n, i, i + Len(lit) - 1) = lit
        /\ MatchTail(SubSeq(n, i + Len(lit), j))

failQ(n) == MatchString(Deny, n)
warnQ(n) == MatchString(Warn, n)

\* the classification loop of processFile for the modules visited in the
\* order `order` (Go ranges over the map compiler.Modules in no fixed order)
RECURSIVE ClassifyRules(_, _, _)
ClassifyRules(rules, i, acc) ==
    IF i > Len(rules) THEN acc
    ELSE LET n  == rules[i].name
             w1 == IF warnQ(n) THEN Append(acc.wQueries, n) ELSE acc.wQueries
             f1 == IF failQ(n) THEN Append(acc.fQueries, n) ELSE acc.fQueries
         IN ClassifyRules(rules, i + 1, [fQueries |-> f1, wQueries |-> w1])

RECURSIVE ClassifyModules(_, _, _, _)
ClassifyModules(ms, order, k, acc) ==
    IF k > Len(order) THEN acc
    ELSE ClassifyModules(ms, order, k + 1, ClassifyRules(ms[order[k]], 1, acc))

Classify(ms, order) ==
    ClassifyModules(ms, order, 1, [fQueries |-> <<>>, wQueries |-> <<>>])

----------------------------------------------------------------------------
(* The configuration files on disk *)

DotYaml == <<".", "y", "a", "m", "l">>
DotYml  == <<".", "y", "m", "l">>
DotJson == <<".", "j", "s", "o", "n">>
DotToml == <<".", "t", "o", "m", "l">>

MYaml == <<"m">> \o DotYaml
SJson == <<"s">> \o DotJson
DYml  == <<"d">> \o DotYml
EYml  == <<"e">> \o DotYml
TToml == <<"t">> \o DotToml
XYaml == <<"x">> \o DotYaml

ConfigPaths == {MYaml, SJson, DYml, EYml, TToml, XYaml}

\* the separator loadConfigs splits on
Separator == <<"\n", "-", "-", "-", "\n">>

\* filepath.Abs(f), the working directory being the root directory
Abs(f) == <<"/">> \o f

\* ioutil.ReadFile(filePath)
ReadFile(filePath) ==
    IF filePath = Abs(MYaml)
        THEN [err |-> Nil,
              data |-> <<"-", "-", "-", "\n", "a">> \o Separator \o <<"a", "b">> \o Separator]
    ELSE IF filePath = Abs(SJson) THEN [err |-> Nil, data |-> <<"a">>]
    ELSE IF filePath = Abs(DYml)
        THEN [err |-> Nil, data |-> <<"a">> \o Separator \o <<"b">>]
    ELSE IF filePath = Abs(EYml)
        THEN [err |-> Nil, data |-> <<"a">> \o Separator \o <<"{">>]
    ELSE IF filePath = Abs(TToml) THEN [err |-> Nil, data |-> <<"a">>]
    ELSE [err |-> <<"no such file or directory">>, data |-> <<>>]

\* bytes.Index(s, sep): position of the first occurrence of sep in s, 0 if none
Index(s, sep) ==
    LET hits == {i \in 1..(Len(s) - Len(sep) + 1) : SubSeq(s, i, i + Len(sep) - 1) = sep}
    IN IF hits = {} THEN 0 ELSE CHOOSE i \in hits : \A k \in hits : i <= k

\* bytes.Split(s, sep)
RECURSIVE Split(_, _)
Split(s, sep) ==
    LET i == Index(s, sep) IN
    IF i = 0 THEN <<s>>
    ELSE <<SubSeq(s, 1, i - 1)>> \o Split(SubSeq(s, i + Len(sep), Len(s)), sep)

\* the loop of loadConfigs over files[i..]
RECURSIVE LoadConfigsLoop(_, _, _)
LoadConfigsLoop(files, i, acc) ==
    IF i > Len(files) THEN [err |-> Nil, res |-> acc]
    ELSE LET filePath == Abs(files[i])
             rd       == ReadFile(filePath)
         IN IF rd.err # Nil
                THEN [err |-> <<"unable to open file: " \o rd.err[1]>>, res |-> <<>>]
            ELSE LoadConfigsLoop(files, i + 1,
                     [n \in DOMAIN acc \cup {filePath} |->
                         IF n = filePath THEN Split(rd.data, Separator) ELSE acc[n]])

loadConfigs(files) == LoadConfigsLoop(files, 1, <<>>)

----------------------------------------------------------------------------
(* parsers.Get and parsers.parseYAML *)

\* filepath.Ext(fileName): from the last dot of the last path element on
Ext(fileName) ==
    LET slashes == {i \in 1..Len(fileName) : fileName[i] = "/"}
        base    == IF slashes = {} THEN 0 ELSE CHOOSE i \in slashes : \A k \in slashes : k <= i
        dots    == {i \in (base + 1)..Len(fileName) : fileName[i] = "."}
    IN IF dots = {} THEN <<>>
       ELSE SubSeq(fileName, CHOOSE i \in dots : \A k \in dots : k <= i, Len(fileName))

\* parsers.Get(fileName): whether a parser exists for the file
ParsersGet(fileName) ==
    IF Ext(fileName) \in {DotYaml, DotYml, DotJson}
        THEN [err |-> Nil]
        ELSE [err |-> <<"unable to find Parser for file">>]

\* parseYAML(bs, &v): an unterminated flow mapping does not parse; any other
\* part decodes to a value, of which the rules see the letters it holds
parseYAML(bs) ==
    IF "{" \in Range(bs)
        THEN [err |-> <<"unable to parse yaml">>, input |-> {}]
        ELSE [err |-> Nil, input |-> {c \in Range(bs) : IsAlpha(c)}]

----------------------------------------------------------------------------
(* The external policy engine: what pq.Eval returns for a query *)

Str(t) == [t |-> "string", v |-> t]
Num(t) == [t |-> "number", v |-> t]

\* the value of the query's expression when the rule has body b
BodyValue(b, input) ==
    IF b = "helper" THEN [isList |-> FALSE, elems |-> <<>>]
    ELSE IF b = "no_a"
        THEN [isList |-> TRUE, elems |-> IF "a" \in input THEN <<>> ELSE <<Str("must hold a")>>]
    ELSE IF b = "has_b"
        THEN [isList |-> TRUE, elems |-> IF "b" \in input THEN <<Str("should not hold b")>> ELSE <<>>]
    ELSE IF b = "two"
        THEN [isList |-> TRUE, elems |-> <<Str("first"), Str("second")>>]
    ELSE IF b = "num"
        THEN [isList |-> TRUE, elems |-> IF "b" \in input THEN <<Num("1")>> ELSE <<>>]
    ELSE [isList |-> TRUE, elems |-> <<>>]

\* fmt.Sprintf("data.%s.%s", namespace, q)
QueryString(namespace, q) == <<"d", "a", "t", "a", ".">> \o namespace \o <<".">> \o q

\* the expression values of the result set: one per rule the query names
EngineEval(ms, query, input) ==
    LET hits == {r \in UNION {Range(ms[n]) : n \in DOMAIN ms} :
                    QueryString(Namespace, r.name) = query}
    IN IF hits = {} THEN [isList |-> FALSE, elems |-> <<>>]
       ELSE BodyValue((CHOOSE r \in hits : TRUE).body, input)

----------------------------------------------------------------------------
(* runQuery and ConfChecker.processFile *)

ErrCancelled == <<"error evaluating rules: context canceled">>

\* hasResults(expression)
hasResults(value) == value.isList /\ Len(value.elems) > 0

\* the extraction loop of runQuery over value[i..]; v.(string) panics on an
\* element that is not a string
RECURSIVE ExtractLoop(_, _, _)
ExtractLoop(elems, i, err) ==
    IF i > Len(elems) THEN [panic |-> FALSE, err |-> err]
    ELSE IF elems[i].t # "string" THEN [panic |-> TRUE, err |-> err]
    ELSE ExtractLoop(elems, i + 1, MultierrAppend(err, <<elems[i].v>>))

\* runQuery(ctx, query, input, compiler); ctxDone: the engine finds the
\* context done while evaluating
runQuery(ctxDone, query, input, ms) ==
    IF ctxDone THEN [panic |-> FALSE, err |-> ErrCancelled]
    ELSE LET value == EngineEval(ms, query, input) IN
         IF hasResults(value) THEN ExtractLoop(value.elems, 1, Nil)
         ELSE [panic |-> FALSE, err |-> Nil]

\* PartQueries with the loop over wQueries left out
PartQueriesFailOnly(cls) ==
    [j \in 1..Len(cls.fQueries) |-> [class |-> "fail", name |-> cls.fQueries[j]]]

\* the queries processFile runs against one part, in order
PartQueries(cls) ==
    [j \in 1..(Len(cls.fQueries) + Len(cls.wQueries)) |->
        IF j <= Len(cls.fQueries)
            THEN [class |-> "fail", name |-> cls.fQueries[j]]
            ELSE [class |-> "warn", name |-> cls.wQueries[j - Len(cls.fQueries)]]]

\* the two inner loops of processFile over qs[j..] for part number i;
\* st holds fails, warns, the calls made so far and whether a call panicked;
\* env holds the file, the modules and the number of the first call that
\* finds the context done
RECURSIVE QueryLoop(_, _, _, _, _, _)
QueryLoop(st, qs, j, input, i, env) ==
    IF j > Len(qs) \/ st.panic THEN st
    ELSE LET query   == QueryString(Namespace, qs[j].name)
             ctxDone == Len(st.evals) + 1 >= env.from
             r       == runQuery(ctxDone, query, input, env.ms)
             call    == [file |-> env.file, part |-> i, input |-> input,
                         query |-> query, class |-> qs[j].class, ctxDone |-> ctxDone,
                         value |-> EngineEval(env.ms, query, input)]
             st1     == [fails |-> IF qs[j].class = "fail" /\ ~r.panic
                                       THEN Append(st.fails, r.err) ELSE st.fails,
                         warns |-> IF qs[j].class = "warn" /\ ~r.panic
                                       THEN Append(st.warns, r.err) ELSE st.warns,
                         evals |-> Append(st.evals, call),
                         panic |-> r.panic]
         IN QueryLoop(st1, qs, j + 1, input, i, env)

\* the loop of processFile over parts[i..]
RECURSIVE PartLoop(_, _, _, _, _)
PartLoop(st, parts, i, qs, env) ==
    IF i > Len(parts) \/ st.panic
        THEN [err |-> Nil, fails |-> st.fails, warns |-> st.warns,
              evals |-> st.evals, panic |-> st.panic]
    ELSE LET d == parseYAML(parts[i]) IN
         IF d.err # Nil
             THEN [err |-> d.err, fails |-> <<>>, warns |-> <<>>,
                   evals |-> st.evals, panic |-> FALSE]
         ELSE PartLoop(QueryLoop(st, qs, 1, d.input, i, env), parts, i + 1, qs, env)

\* processFile(ctx, namespace, fileName, parts, compiler) with the modules
\* ranged over in the order `order`
processFile(from, fileName, parts, ms, order) ==
    LET p == ParsersGet(fileName) IN
    IF p.err # Nil
        THEN [err |-> p.err, fails |-> <<>>, warns |-> <<>>, evals |-> <<>>,
              panic |-> FALSE, classified |-> FALSE, cls |-> Classify(ms, <<>>)]
    ELSE LET cls == Classify(ms, order)
             r   == PartLoop([fails |-> <<>>, warns |-> <<>>, evals |-> <<>>, panic |-> FALSE],
                             parts, 1, PartQueries(cls),
                             [file |-> fileName, ms |-> ms, from |-> from])
         IN [err |-> r.err, fails |-> r.fails, warns |-> r.warns, evals |-> r.evals,
             panic |-> r.panic, classified |-> TRUE, cls |-> cls]

\* RunLoopBody going on to the next file when processFile returns an error
RunLoopBodySkip(acc, name, r) ==
    IF r.err # Nil
        THEN [returned |-> FALSE, err |-> Nil, res |-> acc]
        ELSE [returned |-> FALSE, err |-> Nil,
              res |-> [n \in DOMAIN acc \cup {name} |->
                          IF n = name THEN [Failures |-> r.fails, Warnings |-> r.warns]
                          ELSE acc[n]]]

\* the body of Run's loop once processFile has returned r for file `name`
RunLoopBody(acc, name, r) ==
    IF r.err # Nil
        THEN [returned |-> TRUE, res |-> <<>>,
              err |-> <<"error processiong file: " \o ErrorText(r.err)>>]
        ELSE [returned |-> FALSE, err |-> Nil,
              res |-> [n \in DOMAIN acc \cup {name} |->
                          IF n = name THEN [Failures |-> r.fails, Warnings |-> r.warns]
                          ELSE acc[n]]]

----------------------------------------------------------------------------
(* confCheck and the printer *)

Line(kind, f, e) == [kind |-> kind, file |-> f, text |-> ErrorText(e)]

\* the lines confCheck prints for one file
FileLines(f, r, s) ==
    (IF Len(r.Warnings) = 0 /\ Len(r.Failures) = 0
        THEN <<[kind |-> "Passed", file |-> f, text |-> ""]>> ELSE <<>>)
    \o [i \in 1..Len(r.Warnings) |->
           Line(IF s THEN "Failure" ELSE "Warning", f, r.Warnings[i])]
    \o [i \in 1..Len(r.Failures) |-> Line("Failure", f, r.Failures[i])]

RECURSIVE ReportLines(_, _, _, _)
ReportLines(cr, order, k, s) ==
    IF k > Len(order) THEN <<>>
    ELSE FileLines(order[k], cr[order[k]], s) \o ReportLines(cr, order, k + 1, s)

\* the error confCheck returns: Run's error if any; otherwise nil, the
\* failure it traps in its local err being dropped by `return nil`
confCheckReturn(cr, err) == IF err # Nil THEN err ELSE Nil

\* main's app.Action: log.Fatal (exit status 1) when confCheck returns an error
ExitCode(err) == IF err # Nil THEN 1 ELSE 0

----------------------------------------------------------------------------
(* The process *)

\* command lines: a policy path, up to MaxConfigs distinct configuration
\* files in the order a shell glob lists them, -s
ConfigOrder == <<DYml, EYml, MYaml, SJson, TToml, XYaml>>

ConfigLists ==
    {SelectSeq(ConfigOrder, LAMBDA f : f \in S) :
        S \in {T \in SUBSET ConfigPaths : Cardinality(T) <= MaxConfigs}}

Init ==
    /\ pc = "start"
    /\ policyDir \in PolicyPaths
    /\ configs \in ConfigLists
    /\ strict \in BOOLEAN
    /\ cancelled = FALSE
    /\ modules = <<>>
    /\ cfs = <<>>
    /\ todo = {}
    /\ res = <<>>
    /\ runErr = Nil
    /\ evalLog = <<>>
    /\ classLog = <<>>
    /\ out = <<>>
    /\ exitStatus = -1

\* Run, first step: NewCompiler(c.policyDir).Build()
RunBuild ==
    /\ pc = "start"
    /\ LET b == Build(policyDir) IN
        /\ modules' = b.modules
        /\ IF b.err # Nil
              THEN /\ pc' = "returned"
                   /\ runErr' = <<"error loading rules: " \o ErrorText(b.err)>>
              ELSE /\ pc' = "built"
                   /\ runErr' = Nil
    /\ UNCHANGED <<policyDir, configs, strict, cancelled, cfs, todo, res,
                   evalLog, classLog, out, exitStatus>>

\* Run, second step: c.loadConfigs(ctx, c.configs)
RunLoadConfigs ==
    /\ pc = "built"
    /\ LET l == loadConfigs(configs) IN
        /\ cfs' = l.res
        /\ todo' = DOMAIN l.res
        /\ IF l.err # Nil
              THEN /\ pc' = "returned"
                   /\ runErr' = <<"error loading configs: " \o ErrorText(l.err)>>
              ELSE /\ pc' = "process"
                   /\ runErr' = Nil
    /\ UNCHANGED <<policyDir, configs, strict, cancelled, modules, res,
                   evalLog, classLog, out, exitStatus>>

\* Run, one iteration of `for name, parts := range cfs`: the map yields any
\* key not yet visited; processFile ranges over compiler.Modules in any
\* order; the engine finds the context done from the first query of some
\* part on (never, for the part after the last): a context already done may
\* go unnoticed, since the engine watches it from another goroutine, and a
\* context still live may become done while the file is evaluated
RunProcessFile ==
    /\ pc = "process"
    /\ \E name \in todo : \E order \in Perms(DOMAIN modules) :
       LET pq == Len(PartQueries(Classify(modules, order))) IN
       \E from \in {(i - 1) * pq + 1 :
                       i \in (IF cancelled THEN 1 ELSE 2)..(Len(cfs[name]) + 1)} :
       LET r    == processFile(from, name, cfs[name], modules, order)
           body == RunLoopBody(res, name, r)
       IN /\ evalLog' = evalLog \o r.evals
          /\ cancelled' = (cancelled \/ \E k \in 1..Len(r.evals) : r.evals[k].ctxDone)
          /\ classLog' = IF r.classified
                            THEN [n \in DOMAIN classLog \cup {name} |->
                                     IF n = name THEN r.cls ELSE classLog[n]]
                            ELSE classLog
          /\ IF r.panic
                THEN /\ pc' = "panic"
                     /\ exitStatus' = 2
                     /\ UNCHANGED <<res, runErr, todo>>
                ELSE /\ res' = body.res
                     /\ runErr' = body.err
                     /\ todo' = todo \ {name}
                     /\ pc' = IF body.returned THEN "returned" ELSE "process"
                     /\ UNCHANGED exitStatus
    /\ UNCHANGED <<policyDir, configs, strict, modules, cfs, out>>

\* Run, last step: return res, nil
RunReturn ==
    /\ pc = "process"
    /\ todo = {}
    /\ pc' = "returned"
    /\ UNCHANGED <<policyDir, configs, strict, cancelled, modules, cfs, todo, res,
                   runErr, evalLog, classLog, out, exitStatus>>

\* confCheck after cc.Run returned, and the exit of main
ConfCheck ==
    /\ pc = "returned"
    /\ \E order \in Perms(DOMAIN res) :
          out' = IF runErr # Nil THEN <<>> ELSE ReportLines(res, order, 1, strict)
    /\ exitStatus' = ExitCode(confCheckReturn(res, runErr))
    /\ pc' = "exit"
    /\ UNCHANGED <<policyDir, configs, strict, cancelled, modules, cfs, todo, res,
                   runErr, evalLog, classLog>>

\* the caller cancels the context while Run evaluates the files (Build and
\* loadConfigs never look at the context)
Cancel ==
    /\ pc = "process"
    /\ ~cancelled
    /\ cancelled' = TRUE
    /\ UNCHANGED <<pc, policyDir, configs, strict, modules, cfs, todo, res,
                   runErr, evalLog, classLog, out, exitStatus>>

Next ==
    \/ RunBuild
    \/ RunLoadConfigs
    \/ RunProcessFile
    \/ RunReturn
    \/ ConfCheck
    \/ Cancel

Spec == Init /\ [][Next]_vars

----------------------------------------------------------------------------
(* Properties *)

RunReturned  == pc \in {"returned", "exit"}
RunSucceeded == RunReturned /\ runErr = Nil

\* the runQuery calls made for file f, in order
EvalsOf(f) == SelectSeq(evalLog, LAMBDA e : e.file = f)

\* the rules of the compiled rule-set, as (module, position) pairs
RuleIds == UNION {{<<n, i>> : i \in 1..Len(modules[n])} : n \in DOMAIN modules}
RuleNames == {modules[id[1]][id[2]].name : id \in RuleIds}

NumDenial  == Cardinality({id \in RuleIds : failQ(modules[id[1]][id[2]].name)})
NumWarning == Cardinality({id \in RuleIds : warnQ(modules[id[1]][id[2]].name)})

Supported(f)   == Ext(f) \in {DotYaml, DotYml, DotJson}
DecodeFails(f) == \E i \in 1..Len(cfs[f]) : "{" \in Range(cfs[f][i])

\* the elements the engine produced for the calls es[k..] of class c, each
\* as the error a message of that text is
RECURSIVE ElementsFrom(_, _, _)
ElementsFrom(es, k, c) ==
    IF k > Len(es) THEN <<>>
    ELSE (IF es[k].class = c /\ es[k].value.isList
             THEN [i \in 1..Len(es[k].value.elems) |-> <<es[k].value.elems[i].v>>]
             ELSE <<>>)
         \o ElementsFrom(es, k + 1, c)

\* C1: a file all of whose parts give an empty result for every classified
\* predicate gets a CheckResult with empty Failures and empty Warnings.
C1_CleanFileEmpty ==
    RunSucceeded =>
        \A f \in DOMAIN res :
            (\A k \in 1..Len(EvalsOf(f)) :
                ~EvalsOf(f)[k].ctxDone /\ ~hasResults(EvalsOf(f)[k].value))
            => res[f].Failures = <<>> /\ res[f].Warnings = <<>>

\* C2: after a successful Run the exit status is non-zero exactly when some
\* file has a failure message, or strict mode is on and some file has a
\* warning message.
C2_ExitStatus ==
    (pc = "exit" /\ runErr = Nil) =>
        (exitStatus # 0 <=>
            \/ \E f \in DOMAIN res : \E i \in 1..Len(res[f].Failures) :
                   res[f].Failures[i] # Nil
            \/ strict /\ \E f \in DOMAIN res : \E i \in 1..Len(res[f].Warnings) :
                   res[f].Warnings[i] # Nil)

\* C3: a rule name is in the denial list exactly when it begins with deny,
\* in the warning list exactly when it begins with warn, and a name of
\* neither form is in neither list and is never queried.
C3_Classification ==
    \A f \in DOMAIN classLog : \A n \in RuleNames :
        /\ n \in Range(classLog[f].fQueries) <=> HasPrefix(n, Deny)
        /\ n \in Range(classLog[f].wQueries) <=> HasPrefix(n, Warn)
        /\ (~HasPrefix(n, Deny) /\ ~HasPrefix(n, Warn)) =>
               \A k \in 1..Len(evalLog) : evalLog[k].query # QueryString(Namespace, n)

\* C4: a supported file whose K parts all decode gets exactly K x (N + M)
\* query evaluations, N + M of them on each part with that part as input;
\* a file without a separator is one part, the whole file.
C4_EvalCount ==
    \A f \in DOMAIN res :
        LET K  == Len(cfs[f])
            es == EvalsOf(f)
        IN /\ Len(es) = K * (NumDenial + NumWarning)
           /\ \A i \in 1..K :
                 /\ Cardinality({k \in 1..Len(es) : es[k].part = i}) = NumDenial + NumWarning
                 /\ \A k \in 1..Len(es) :
                        es[k].part = i => es[k].input = {c \in Range(cfs[f][i]) : IsAlpha(c)}
           /\ \A k \in 1..Len(es) : es[k].part \in 1..K
           /\ (\A i \in 1..(Len(ReadFile(f).data) - Len(Separator) + 1) :
                   SubSeq(ReadFile(f).data, i, i + Len(Separator) - 1) # Separator)
              => K = 1 /\ cfs[f][1] = ReadFile(f).data

\* the case of C4: a file of three parts evaluated against denial and
\* warning predicates
C4_Witness ==
    \E f \in DOMAIN res :
        /\ Len(cfs[f]) = 3
        /\ NumDenial >= 2
        /\ NumWarning >= 1
        /\ Len(EvalsOf(f)) >= 9

\* C5: any two executions of the classification step on the same rule-set
\* give the same ordered denial names and the same ordered warning names.
C5_Deterministic ==
    \A f, g \in DOMAIN classLog : classLog[f] = classLog[g]

\* C6: once a query has found the context done Run issues no further query
\* and returns a cancellation error; a successful CheckResults never holds
\* the cancellation as an entry of Failures or Warnings.
C6_CancelAborts ==
    /\ \A k \in 1..(Len(evalLog) - 1) : ~evalLog[k].ctxDone
    /\ (RunReturned /\ \E k \in 1..Len(evalLog) : evalLog[k].ctxDone)
           => runErr # Nil
    /\ RunSucceeded =>
           \A f \in DOMAIN res :
               /\ ErrCancelled \notin Range(res[f].Failures)
               /\ ErrCancelled \notin Range(res[f].Warnings)

\* C7: a policy path that is a file is loaded as a module whatever its
\* suffix; a directory contributes exactly its entries ending in .rego.
C7_PolicyFiles ==
    pc = "built" =>
        IF Stat(policyDir).isDir
            THEN DOMAIN modules = {n \in Range(ReadDir(policyDir)) : HasSuffix(n, DotRego)}
            ELSE DOMAIN modules = {Stat(policyDir).name}

\* C8 as stated: when a part of one file fails to decode, every other
\* supported, decodable file of the invocation is still in the outcome.
C8_DecodeIsolated ==
    (RunReturned /\ \E f \in DOMAIN cfs : Supported(f) /\ DecodeFails(f)) =>
        \A g \in DOMAIN cfs : (Supported(g) /\ ~DecodeFails(g)) => g \in DOMAIN res

\* C8 as amended: when a part of one supported file fails to decode, Run
\* returns an error and an empty CheckResults: no file of the invocation is
\* in the outcome.
C8_DecodeAbortsRun ==
    (RunReturned /\ \E f \in DOMAIN cfs : Supported(f) /\ DecodeFails(f)) =>
        runErr # Nil /\ res = <<>>

\* the case of C8: Run returned the parse error of one file after another
\* file of the invocation had been evaluated
C8_Witness ==
    /\ RunReturned
    /\ runErr = <<"error processiong file: unable to parse yaml">>
    /\ res = <<>>
    /\ \E f \in DOMAIN cfs : Supported(f) /\ DecodeFails(f)
    /\ \E g \in DOMAIN cfs :
           /\ Supported(g) /\ ~DecodeFails(g)
           /\ g \notin todo
           /\ Len(EvalsOf(g)) > 0

\* C9: every element of every result list becomes one message of its
\* predicate's class, in evaluation order and with the element's text.
C9_OneMessagePerElement ==
    RunSucceeded =>
        \A f \in DOMAIN res :
            (\A k \in 1..Len(EvalsOf(f)) : ~EvalsOf(f)[k].ctxDone) =>
                /\ res[f].Failures = ElementsFrom(EvalsOf(f), 1, "fail")
                /\ res[f].Warnings = ElementsFrom(EvalsOf(f), 1, "warn")

\* C10: a result element that is not a string never crashes the process.
C10_NoPanic == pc # "panic"

====
